---- MODULE Spec2Model ----
(***************************************************************************)
(* ContractionScheme (multilevel_graphs/contraction_schemes/               *)
(* contraction_scheme.py): one level of a multilevel graph.  A scheme      *)
(* contracts a lower-level decontractible graph into supernodes and        *)
(* superedges (contract), repairs that graph on lower-level changes        *)
(* (update) and carries a validity flag (is_valid / invalidate).           *)
(*                                                                         *)
(* Lower-level nodes are the keys 1..NumNodes, a lower-level edge is the   *)
(* pair <<tail, head>>.  Objects that are shared by reference in the code  *)
(* (a Supernode held by dec_graph, by supernode_table and by the           *)
(* back-reference of its members) are referred to by their key.            *)
(***************************************************************************)
EXTENDS Integers, Sequences, FiniteSets, TLC

VARIABLES dec_graph, contraction_sets_table, supernode_table,
          _supernode_id_counter, _component_set_id_counter, _valid,
          supernode, issued, last, returned

vars == <<dec_graph, contraction_sets_table, supernode_table,
          _supernode_id_counter, _component_set_id_counter, _valid,
          supernode, issued, last, returned>>

----------------------------------------------------------------------------
(* Bounds of the model. *)

NumNodes == 2      \* lower-level nodes 1..NumNodes
MaxEdges == 2      \* edges of a graph handed to contract
MaxSets == 1       \* component sets one contraction_function call returns
MaxId == 3         \* cap on both id counters
MaxQuad == 1       \* elements of one update quadruple, all four sets together
MaxRecordedQuad == 3   \* the same, of an update whose hook calls are on record
MaxUpdates == 1    \* update calls of one run whose hook calls are on record
MaxRebuilds == 1   \* contract calls made again on the graph of the first one

Nodes == 1..NumNodes
EdgeUniverse == Nodes \X Nodes

----------------------------------------------------------------------------
(* Values. *)

\* Python's None, for an attribute that otherwise holds a record.
None == [none |-> TRUE]
\* Python's None, for an attribute that otherwise holds a supernode key.
NoKey == "None"
\* what a call that raised hands back: nothing
NoValue == [raised |-> TRUE]

level == 0
contraction_name == "scc"

\* str(level) + "_" + contraction_name + "_" + str(id)
SupernodeKey(lvl, name, id) == ToString(lvl) \o "_" \o name \o "_" \o ToString(id)

EmptyMap == << >>

Remove(f, k) == [x \in DOMAIN f \ {k} |-> f[x]]

\* dict.update(**attrs): the new entries override the old ones
Merge(attr, new) == new @@ attr

\* DecGraph(): node mapping V (key -> Supernode), edge mapping E
\* ((tail key, head key) -> Superedge)
DecGraph == [V |-> EmptyMap, E |-> EmptyMap]

\* Supernode(key, level, set_of_sets): its internal graph dec holds the
\* lower-level nodes and edges that collapsed into it
Supernode(key, lvl, set_of_sets) ==
    [key |-> key, level |-> lvl, set_of_sets |-> set_of_sets,
     dec |-> [V |-> {}, E |-> {}], attr |-> EmptyMap]

\* Superedge(tail, head, level): dec holds the lower-level edges it aggregates
Superedge(tail, head, lvl) ==
    [tail |-> tail, head |-> head, level |-> lvl, dec |-> {}, attr |-> EmptyMap]

\* ComponentSet(id, members)
ComponentSet(id, members) == [id |-> id, members |-> members, attr |-> EmptyMap]

\* DecTable: items lists (node, ids of the component sets of the node) in
\* iteration order, c_sets holds the ComponentSet objects by id
DecTable(items, c_sets) == [items |-> items, c_sets |-> c_sets]

\* frozenset(set_of_sets): component sets are equal when their members are,
\* whatever their ids, so the frozenset is the set of the member sets
frozenset(c_sets, set_of_sets) == {c_sets[i].members : i \in set_of_sets}

\* dict[k] = v
DictSet(f, k, v) == (k :> v) @@ f

\* the three decoration callbacks handed to __init__
supernode_attr_function(sn) == [size |-> Cardinality(sn.dec.V)]
superedge_attr_function(se) == [weight |-> Cardinality(se.dec)]
c_set_attr_function(members) == [size |-> Cardinality(members)]

----------------------------------------------------------------------------
(* Inputs. *)

RECURSIVE SubsetsUpTo(_, _)
SubsetsUpTo(S, k) ==
    IF k = 0 THEN {{}}
    ELSE LET prev == SubsetsUpTo(S, k - 1)
         IN prev \cup {s \cup {e} : s \in prev, e \in S}

\* the lower-level graphs handed to contract: every edge joins two of its nodes
Graphs ==
    UNION {{[V |-> V, E |-> E] : E \in SubsetsUpTo(V \X V, MaxEdges)} : V \in SUBSET Nodes}

\* the orders in which a table may list the nodes of V
Orders(V) ==
    {o \in [1..Cardinality(V) -> V] : \A i, j \in DOMAIN o : i # j => o[i] # o[j]}

\* the member sets a grouping strategy may return for a graph on V, in the
\* order in which it creates them
MemberSeqs(V) ==
    UNION {[1..n -> SUBSET V \ {{}}] : n \in 0..MaxSets}

----------------------------------------------------------------------------
(* The scheme as one record, threaded through the methods. *)

Self ==
    [dec_graph |-> dec_graph,
     contraction_sets_table |-> contraction_sets_table,
     supernode_table |-> supernode_table,
     _supernode_id_counter |-> _supernode_id_counter,
     _component_set_id_counter |-> _component_set_id_counter,
     _valid |-> _valid,
     supernode |-> supernode,
     issued |-> issued]

Store(s) ==
    /\ dec_graph' = s.dec_graph
    /\ contraction_sets_table' = s.contraction_sets_table
    /\ supernode_table' = s.supernode_table
    /\ _supernode_id_counter' = s._supernode_id_counter
    /\ _component_set_id_counter' = s._component_set_id_counter
    /\ _valid' = s._valid
    /\ supernode' = s.supernode
    /\ issued' = s.issued

\* history of the ids and keys the scheme has handed out, in order
NoIssued == [supernode_ids |-> << >>, component_set_ids |-> << >>, keys |-> << >>]

\* ContractionScheme.__init__; no lower-level node has a supernode yet
__init__ ==
    [dec_graph |-> None,
     contraction_sets_table |-> None,
     supernode_table |-> EmptyMap,
     _supernode_id_counter |-> 0,
     _component_set_id_counter |-> 0,
     _valid |-> FALSE,
     supernode |-> [n \in Nodes |-> NoKey],
     issued |-> NoIssued]

\* _get_supernode_id without the increment
_get_supernode_id_stuck(s) ==
    [self |-> s, id |-> s._supernode_id_counter + 1]

\* _get_supernode_id: increments the counter and returns it
_get_supernode_id(s) ==
    [self |-> [s EXCEPT !._supernode_id_counter = @ + 1],
     id |-> s._supernode_id_counter + 1]

\* _get_component_set_id: increments the counter and returns it
_get_component_set_id(s) ==
    [self |-> [s EXCEPT !._component_set_id_counter = @ + 1],
     id |-> s._component_set_id_counter + 1]

is_valid(s) == s._valid

\* invalidate leaving the flag as it is
invalidate_noop(s) == s

invalidate(s) == [s EXCEPT !._valid = FALSE]

----------------------------------------------------------------------------
(* The grouping strategy. *)

\* the strategy creates one ComponentSet per member set, each with an id
\* drawn from _get_component_set_id
RECURSIVE MakeComponentSets(_, _, _, _)
MakeComponentSets(s, members, i, c_sets) ==
    IF i > Len(members) THEN [self |-> s, c_sets |-> c_sets]
    ELSE LET r == _get_component_set_id(s)
             s1 == [r.self EXCEPT !.issued.component_set_ids = Append(@, r.id)]
         IN MakeComponentSets(s1, members, i + 1,
                              DictSet(c_sets, r.id, ComponentSet(r.id, members[i])))

\* contraction_function(dec_graph): the table lists every node of the graph,
\* in the given order, with the component sets it is a member of
contraction_function(s, G, members, order) ==
    LET r == MakeComponentSets(s, members, 1, EmptyMap)
        items == [i \in DOMAIN order |->
                    <<order[i], {c \in DOMAIN r.c_sets : order[i] \in r.c_sets[c].members}>>]
    IN [self |-> r.self, table |-> DecTable(items, r.c_sets)]

\* contraction_function raising StrategyFailure: the strategy fails before it
\* has built anything
contraction_function_raises(s) == s

RECURSIVE SetToSeq(_)
SetToSeq(S) ==
    IF S = {} THEN << >>
    ELSE LET x == CHOOSE y \in S : TRUE IN <<x>> \o SetToSeq(S \ {x})

\* the node sets of the simple cycles of G
CycleSets(G) ==
    {C \in SUBSET G.V \ {{}} :
        \E p \in Orders(C) :
            \A i \in DOMAIN p : <<p[i], p[(i % Len(p)) + 1]>> \in G.E}

\* a cycle-membership strategy: one component set per simple cycle of G
cycle_membership(G) == SetToSeq(CycleSets(G))

----------------------------------------------------------------------------
(* contract and its helpers. *)

\* DecGraph.add_node
DecGraph_add_node(g, sn) == [g EXCEPT !.V = DictSet(@, sn.key, sn)]

\* AssignNode without the lookup in supernode_table: every node gets a
\* supernode of its own
AssignNode_always_new(m, dec_table, item) ==
    LET node == item[1]
        f_set_of_sets == frozenset(dec_table.c_sets, item[2])
        r == _get_supernode_id(m.self)
        key == SupernodeKey(level, contraction_name, r.id)
    IN [self |-> [r.self EXCEPT
                    !.supernode_table = DictSet(@, f_set_of_sets, key),
                    !.issued.supernode_ids = Append(@, r.id),
                    !.issued.keys = Append(@, key),
                    !.supernode[node] = key],
        contracted_graph |->
            [V |-> DictSet(m.contracted_graph.V, key,
                           [Supernode(key, level, f_set_of_sets) EXCEPT !.dec.V = {node}]),
             E |-> m.contracted_graph.E]]

\* AssignNode without contracted_graph.add_node(supernode): the new supernode
\* is in supernode_table only
AssignNode_not_added(m, dec_table, item) ==
    LET node == item[1]
        f_set_of_sets == frozenset(dec_table.c_sets, item[2])
        m1 == IF f_set_of_sets \notin DOMAIN m.self.supernode_table
              THEN LET r == _get_supernode_id(m.self)
                       key == SupernodeKey(level, contraction_name, r.id)
                   IN [m EXCEPT !.self =
                         [r.self EXCEPT
                            !.supernode_table = DictSet(@, f_set_of_sets, key),
                            !.issued.supernode_ids = Append(@, r.id),
                            !.issued.keys = Append(@, key)]]
              ELSE m
    IN [m1 EXCEPT !.self.supernode[node] = m1.self.supernode_table[f_set_of_sets]]

\* AssignNode that never looks up the empty signature: a node without
\* component sets gets a supernode of its own
AssignNode_unclustered_alone(m, dec_table, item) ==
    LET node == item[1]
        f_set_of_sets == frozenset(dec_table.c_sets, item[2])
        m1 == IF f_set_of_sets = {} \/ f_set_of_sets \notin DOMAIN m.self.supernode_table
              THEN LET r == _get_supernode_id(m.self)
                       key == SupernodeKey(level, contraction_name, r.id)
                   IN [self |-> [r.self EXCEPT
                                   !.supernode_table = DictSet(@, f_set_of_sets, key),
                                   !.issued.supernode_ids = Append(@, r.id),
                                   !.issued.keys = Append(@, key)],
                       contracted_graph |->
                           DecGraph_add_node(m.contracted_graph,
                                             Supernode(key, level, f_set_of_sets))]
              ELSE m
        sn == m1.self.supernode_table[f_set_of_sets]
    IN [self |-> [m1.self EXCEPT !.supernode[node] = sn],
        contracted_graph |->
            [m1.contracted_graph EXCEPT !.V[sn].dec.V = @ \cup {node}]]

\* AssignNode that sets the back-reference of a node only when it has none
AssignNode_keeps_backref(m, dec_table, item) ==
    LET node == item[1]
        f_set_of_sets == frozenset(dec_table.c_sets, item[2])
        m1 == IF f_set_of_sets \notin DOMAIN m.self.supernode_table
              THEN LET r == _get_supernode_id(m.self)
                       key == SupernodeKey(level, contraction_name, r.id)
                   IN [self |-> [r.self EXCEPT
                                   !.supernode_table = DictSet(@, f_set_of_sets, key),
                                   !.issued.supernode_ids = Append(@, r.id),
                                   !.issued.keys = Append(@, key)],
                       contracted_graph |->
                           DecGraph_add_node(m.contracted_graph,
                                             Supernode(key, level, f_set_of_sets))]
              ELSE m
        sn == m1.self.supernode_table[f_set_of_sets]
    IN [self |-> IF m1.self.supernode[node] = NoKey
                 THEN [m1.self EXCEPT !.supernode[node] = sn]
                 ELSE m1.self,
        contracted_graph |->
            [m1.contracted_graph EXCEPT !.V[sn].dec.V = @ \cup {node}]]

\* first loop of _make_dec_graph, one (node, set_of_sets) of the table
AssignNode(m, dec_table, item) ==
    LET node == item[1]
        f_set_of_sets == frozenset(dec_table.c_sets, item[2])
        m1 == IF f_set_of_sets \notin DOMAIN m.self.supernode_table
              THEN LET r == _get_supernode_id(m.self)
                       key == SupernodeKey(level, contraction_name, r.id)
                   IN [self |-> [r.self EXCEPT
                                   !.supernode_table = DictSet(@, f_set_of_sets, key),
                                   !.issued.supernode_ids = Append(@, r.id),
                                   !.issued.keys = Append(@, key)],
                       contracted_graph |->
                           DecGraph_add_node(m.contracted_graph,
                                             Supernode(key, level, f_set_of_sets))]
              ELSE m
        sn == m1.self.supernode_table[f_set_of_sets]
    IN [self |-> [m1.self EXCEPT !.supernode[node] = sn],
        contracted_graph |->
            IF sn \in DOMAIN m1.contracted_graph.V
            THEN [m1.contracted_graph EXCEPT !.V[sn].dec.V = @ \cup {node}]
            ELSE m1.contracted_graph]

RECURSIVE AssignNodes(_, _, _)
AssignNodes(m, dec_table, i) ==
    IF i > Len(dec_table.items) THEN m
    ELSE AssignNodes(AssignNode(m, dec_table, dec_table.items[i]), dec_table, i + 1)

\* E.setdefault(key, superedge)
SetDefault(E, key, superedge) == IF key \in DOMAIN E THEN E ELSE DictSet(E, key, superedge)

\* AbsorbEdge keying the superedge (head key, tail key)
AbsorbEdge_reversed_key(m, edge) ==
    LET tail == m.self.supernode[edge[1]]
        head == m.self.supernode[edge[2]]
        g == m.contracted_graph
    IN IF tail # head
       THEN LET E1 == SetDefault(g.E, <<head, tail>>, Superedge(head, tail, level))
            IN [m EXCEPT !.contracted_graph.E =
                            [E1 EXCEPT ![<<head, tail>>].dec = @ \cup {edge}]]
       ELSE IF tail \in DOMAIN g.V
            THEN [m EXCEPT !.contracted_graph.V[tail].dec.E = @ \cup {edge}]
            ELSE m

\* AbsorbEdge in which an aggregate keeps only the edge absorbed last
AbsorbEdge_overwrites(m, edge) ==
    LET tail == m.self.supernode[edge[1]]
        head == m.self.supernode[edge[2]]
        g == m.contracted_graph
    IN IF tail # head
       THEN LET E1 == SetDefault(g.E, <<tail, head>>, Superedge(tail, head, level))
            IN [m EXCEPT !.contracted_graph.E =
                            [E1 EXCEPT ![<<tail, head>>].dec = {edge}]]
       ELSE IF tail \in DOMAIN g.V
            THEN [m EXCEPT !.contracted_graph.V[tail].dec.E = {edge}]
            ELSE m

\* AbsorbEdge without the comparison of the two supernodes: every edge goes
\* into a superedge
AbsorbEdge_always_superedge(m, edge) ==
    LET tail == m.self.supernode[edge[1]]
        head == m.self.supernode[edge[2]]
        E1 == SetDefault(m.contracted_graph.E, <<tail, head>>, Superedge(tail, head, level))
    IN [m EXCEPT !.contracted_graph.E = [E1 EXCEPT ![<<tail, head>>].dec = @ \cup {edge}]]

\* second loop of _make_dec_graph, one edge of the lower-level graph
AbsorbEdge(m, edge) ==
    LET tail == m.self.supernode[edge[1]]
        head == m.self.supernode[edge[2]]
        g == m.contracted_graph
    IN IF tail # head
       THEN LET E1 == SetDefault(g.E, <<tail, head>>, Superedge(tail, head, level))
            IN [m EXCEPT !.contracted_graph.E =
                            [E1 EXCEPT ![<<tail, head>>].dec = @ \cup {edge}]]
       ELSE IF tail \in DOMAIN g.V
            THEN [m EXCEPT !.contracted_graph.V[tail].dec.E = @ \cup {edge}]
            ELSE m

RECURSIVE AbsorbEdges(_, _)
AbsorbEdges(m, edges) ==
    IF edges = {} THEN m
    ELSE LET edge == CHOOSE e \in edges : TRUE
         IN AbsorbEdges(AbsorbEdge(m, edge), edges \ {edge})

\* _make_dec_graph that keeps the supernode_table of the build before
_make_dec_graph_keeps_table(s, dec_table, G) ==
    LET m0 == [self |-> s, contracted_graph |-> DecGraph]
        m1 == AssignNodes(m0, dec_table, 1)
    IN AbsorbEdges(m1, G.E)

\* _make_dec_graph that adds to the graph of the build before
_make_dec_graph_extends_graph(s, dec_table, G) ==
    LET m0 == [self |-> [s EXCEPT !.supernode_table = EmptyMap],
               contracted_graph |-> IF s.dec_graph = None THEN DecGraph ELSE s.dec_graph]
        m1 == AssignNodes(m0, dec_table, 1)
    IN AbsorbEdges(m1, G.E)

\* _make_dec_graph(dec_table, dec_graph)
_make_dec_graph(s, dec_table, G) ==
    LET m0 == [self |-> [s EXCEPT !.supernode_table = EmptyMap],
               contracted_graph |-> DecGraph]
        m1 == AssignNodes(m0, dec_table, 1)
    IN AbsorbEdges(m1, G.E)

\* update_attr: decorates every supernode, superedge and component set
update_attr(s) ==
    LET g == s.dec_graph
        t == s.contraction_sets_table
    IN [s EXCEPT
          !.dec_graph.V = [k \in DOMAIN g.V |->
                [g.V[k] EXCEPT !.attr = Merge(@, supernode_attr_function(g.V[k]))]],
          !.dec_graph.E = [k \in DOMAIN g.E |->
                [g.E[k] EXCEPT !.attr = Merge(@, superedge_attr_function(g.E[k]))]],
          !.contraction_sets_table.c_sets = [c \in DOMAIN t.c_sets |->
                [t.c_sets[c] EXCEPT !.attr = Merge(@, c_set_attr_function(t.c_sets[c].members))]]]

\* value of _valid when contract returns
ValidAfterContract == TRUE

\* contract that calls update_attr before _make_dec_graph
contract_decorates_first(s, G, members, order) ==
    LET r1 == contraction_function(s, G, members, order)
        s1 == [r1.self EXCEPT !.contraction_sets_table = r1.table]
        sd == IF s1.dec_graph = None THEN s1 ELSE update_attr(s1)
        r2 == _make_dec_graph(sd, sd.contraction_sets_table, G)
        s2 == [r2.self EXCEPT !.dec_graph = r2.contracted_graph]
    IN [s2 EXCEPT !._valid = ValidAfterContract]

\* contract(dec_graph), the strategy returning normally
contract(s, G, members, order) ==
    LET r1 == contraction_function(s, G, members, order)
        s1 == [r1.self EXCEPT !.contraction_sets_table = r1.table]
        r2 == _make_dec_graph(s1, s1.contraction_sets_table, G)
        s2 == [r2.self EXCEPT !.dec_graph = r2.contracted_graph]
        s3 == update_attr(s2)
    IN [s3 EXCEPT !._valid = ValidAfterContract]

\* contract(dec_graph) up to line 172: the table and the graph are assigned,
\* update_attr is still to run
contract_built(s, G, members, order) ==
    LET r1 == contraction_function(s, G, members, order)
        s1 == [r1.self EXCEPT !.contraction_sets_table = r1.table]
        r2 == _make_dec_graph(s1, s1.contraction_sets_table, G)
    IN [r2.self EXCEPT !.dec_graph = r2.contracted_graph]

\* one call of a decoration callback and the merge of what it returns
Decorate(s, call) ==
    CASE call[1] = "supernode" ->
           [s EXCEPT !.dec_graph.V[call[2]].attr =
                        Merge(@, supernode_attr_function(s.dec_graph.V[call[2]]))]
      [] call[1] = "superedge" ->
           [s EXCEPT !.dec_graph.E[call[2]].attr =
                        Merge(@, superedge_attr_function(s.dec_graph.E[call[2]]))]
      [] call[1] = "c_set" ->
           [s EXCEPT !.contraction_sets_table.c_sets[call[2]].attr =
                        Merge(@, c_set_attr_function(
                                   s.contraction_sets_table.c_sets[call[2]].members))]

\* the entities of one kind, in the order given
Decorating(kind, keys) == [i \in DOMAIN keys |-> <<kind, keys[i]>>]

\* the decoration calls of update_attr in order: the supernodes and the
\* component sets as they were created, the superedges in the order
\* superedge_order of the edge mapping
DecorationCalls(s, superedge_order) ==
    Decorating("supernode",
               SelectSeq(s.issued.keys, LAMBDA k : k \in DOMAIN s.dec_graph.V))
      \o Decorating("superedge", superedge_order)
      \o Decorating("c_set",
                    SelectSeq(s.issued.component_set_ids,
                              LAMBDA c : c \in DOMAIN s.contraction_sets_table.c_sets))

RECURSIVE RunDecoration(_, _, _, _)
RunDecoration(s, calls, i, completed) ==
    IF i > completed THEN s
    ELSE RunDecoration(Decorate(s, calls[i]), calls, i + 1, completed)

\* update_attr in which the callback raises in its call number completed + 1
update_attr_raises(s, superedge_order, completed) ==
    RunDecoration(s, DecorationCalls(s, superedge_order), 1, completed)

\* contract(dec_graph), a decoration callback raising inside update_attr:
\* line 174 is not reached
contract_decoration_raises(s, G, members, order, superedge_order, completed) ==
    update_attr_raises(contract_built(s, G, members, order), superedge_order, completed)

\* contract that clears its tables before it calls the strategy
contract_raises_cleared(s) ==
    [contraction_function_raises(s) EXCEPT
        !.contraction_sets_table = None, !.supernode_table = EmptyMap]

\* contract(dec_graph), contraction_function raising: line 171 assigns nothing
contract_raises(s) == contraction_function_raises(s)

----------------------------------------------------------------------------
(* update and the four hooks. *)

Returns(s) == [self |-> s, raised |-> "ok"]
Raises(s, error) == [self |-> s, raised |-> error]

\* the lower-level edges the aggregates of g hold
HeldEdges(g) ==
    IF g = None THEN {}
    ELSE UNION {g.E[k].dec : k \in DOMAIN g.E} \cup UNION {g.V[k].dec.E : k \in DOMAIN g.V}

\* a supernode or superedge after its decoration has been re-run
DecoratedSupernode(sn) == [sn EXCEPT !.attr = Merge(@, supernode_attr_function(sn))]
DecoratedSuperedge(se) == [se EXCEPT !.attr = Merge(@, superedge_attr_function(se))]

\* update_removed_edge(superedge): takes the edge out of the aggregate that
\* holds it and drops a superedge that becomes empty
update_removed_edge(s, edge) ==
    LET g == s.dec_graph
        tail == s.supernode[edge[1]]
        head == s.supernode[edge[2]]
    IN IF g = None THEN Raises(s, "InconsistentUpdate")
       ELSE IF tail # head /\ <<tail, head>> \in DOMAIN g.E
                           /\ edge \in g.E[<<tail, head>>].dec
       THEN LET se == [g.E[<<tail, head>>] EXCEPT !.dec = @ \ {edge}]
            IN Returns([s EXCEPT !.dec_graph.E =
                          IF se.dec = {} THEN Remove(g.E, <<tail, head>>)
                          ELSE DictSet(g.E, <<tail, head>>, DecoratedSuperedge(se))])
       ELSE IF tail = head /\ tail \in DOMAIN g.V /\ edge \in g.V[tail].dec.E
       THEN Returns([s EXCEPT !.dec_graph.V[tail] =
                          DecoratedSupernode([@ EXCEPT !.dec.E = @ \ {edge}])])
       ELSE Raises(s, "InconsistentUpdate")

\* update_removed_node(supernode): takes the node out of its supernode and
\* drops a supernode that becomes empty, from the graph and from the table
update_removed_node(s, node) ==
    LET g == s.dec_graph
        key == s.supernode[node]
    IN IF g = None THEN Raises(s, "InconsistentUpdate")
       ELSE IF key \in DOMAIN g.V /\ node \in g.V[key].dec.V
       THEN LET sn == [g.V[key] EXCEPT !.dec.V = @ \ {node}]
            IN IF sn.dec.V = {}
               THEN Returns([s EXCEPT !.dec_graph.V = Remove(g.V, key),
                                      !.supernode_table = Remove(@, sn.set_of_sets)])
               ELSE Returns([s EXCEPT !.dec_graph.V[key] = DecoratedSupernode(sn)])
       ELSE Raises(s, "InconsistentUpdate")

\* the signature of a node under the current table: the component sets the
\* table lists for it, none when it lists none
SignatureOf(dec_table, node) ==
    LET listed == {i \in DOMAIN dec_table.items : dec_table.items[i][1] = node}
    IN frozenset(dec_table.c_sets, UNION {dec_table.items[i][2] : i \in listed})

\* update_added_node(supernode): puts the node into the supernode of its
\* signature, creating that supernode when there is none
update_added_node(s, node) ==
    LET g == s.dec_graph
    IN IF g = None \/ s.contraction_sets_table = None
       THEN Raises(s, "InconsistentUpdate")
       ELSE LET f_set_of_sets == SignatureOf(s.contraction_sets_table, node)
                r == _get_supernode_id(s)
                fresh == f_set_of_sets \notin DOMAIN s.supernode_table
                key == IF fresh THEN SupernodeKey(level, contraction_name, r.id)
                       ELSE s.supernode_table[f_set_of_sets]
                s1 == IF fresh
                      THEN [r.self EXCEPT
                              !.supernode_table = DictSet(@, f_set_of_sets, key),
                              !.issued.supernode_ids = Append(@, r.id),
                              !.issued.keys = Append(@, key),
                              !.dec_graph = DecGraph_add_node(@, Supernode(key, level, f_set_of_sets))]
                      ELSE s
            IN IF node \in s1.dec_graph.V[key].dec.V
               THEN Raises(s, "DuplicateKey")
               ELSE Returns([s1 EXCEPT
                               !.supernode[node] = key,
                               !.dec_graph.V[key] =
                                   DecoratedSupernode([@ EXCEPT !.dec.V = @ \cup {node}])])

\* update_added_edge(superedge): routes the edge as _make_dec_graph does, by
\* the supernodes its tail and head currently are members of
update_added_edge(s, edge) ==
    LET g == s.dec_graph
        tail == s.supernode[edge[1]]
        head == s.supernode[edge[2]]
    IN IF g = None THEN Raises(s, "InconsistentUpdate")
       ELSE IF ~ /\ tail \in DOMAIN g.V /\ edge[1] \in g.V[tail].dec.V
                 /\ head \in DOMAIN g.V /\ edge[2] \in g.V[head].dec.V
       THEN Raises(s, "InconsistentUpdate")
       ELSE IF edge \in HeldEdges(g) THEN Raises(s, "DuplicateKey")
       ELSE IF tail # head
       THEN LET E1 == SetDefault(g.E, <<tail, head>>, Superedge(tail, head, level))
            IN Returns([s EXCEPT !.dec_graph.E =
                          [E1 EXCEPT ![<<tail, head>>] =
                              DecoratedSuperedge([@ EXCEPT !.dec = @ \cup {edge}])]])
       ELSE Returns([s EXCEPT !.dec_graph.V[tail] =
                          DecoratedSupernode([@ EXCEPT !.dec.E = @ \cup {edge}])])

Hook(s, call) ==
    CASE call[1] = "update_removed_edge" -> update_removed_edge(s, call[2])
      [] call[1] = "update_removed_node" -> update_removed_node(s, call[2])
      [] call[1] = "update_added_node" -> update_added_node(s, call[2])
      [] call[1] = "update_added_edge" -> update_added_edge(s, call[2])

Calling(hook, elements) == [i \in DOMAIN elements |-> <<hook, elements[i]>>]

\* HookCalls with the removed nodes handled before the removed edges
HookCalls_nodes_first(q, o) ==
    Calling("update_removed_node", o.v_minus)
      \o Calling("update_removed_edge", o.e_minus)
      \o Calling("update_added_node", o.v_plus)
      \o Calling("update_added_edge", o.e_plus)

\* the hook calls of update(update_quadruple), in order; o gives the order
\* in which each of the four sets is iterated
HookCalls(q, o) ==
    Calling("update_removed_edge", o.e_minus)
      \o Calling("update_removed_node", o.v_minus)
      \o Calling("update_added_node", o.v_plus)
      \o Calling("update_added_edge", o.e_plus)

\* RunHooks that carries on with the calls that follow a failing one and
\* reports the failure at the end
RECURSIVE RunHooks_carries_on(_, _, _)
RunHooks_carries_on(s, calls, i) ==
    IF i > Len(calls) THEN [self |-> s, raised |-> "ok", log |-> calls]
    ELSE LET r == Hook(s, calls[i])
             rest == RunHooks_carries_on(r.self, calls, i + 1)
         IN IF r.raised # "ok"
            THEN [self |-> rest.self, raised |-> r.raised, log |-> SubSeq(calls, 1, i)]
            ELSE rest

\* the calls run one after the other; an exception ends update at once
RECURSIVE RunHooks(_, _, _)
RunHooks(s, calls, i) ==
    IF i > Len(calls) THEN [self |-> s, raised |-> "ok", log |-> calls]
    ELSE LET r == Hook(s, calls[i])
         IN IF r.raised # "ok"
            THEN [self |-> r.self, raised |-> r.raised, log |-> SubSeq(calls, 1, i)]
            ELSE RunHooks(r.self, calls, i + 1)

\* update that refuses to run on a scheme that is not valid
update_checks_valid(s, q, o) ==
    LET r == RunHooks(s, HookCalls(q, o), 1)
    IN IF ~ s._valid
       THEN [self |-> s, raised |-> "InconsistentUpdate", log |-> << >>,
             returned |-> NoValue]
       ELSE [self |-> r.self, raised |-> r.raised, log |-> r.log,
             returned |-> IF r.raised = "ok" THEN r.self.dec_graph ELSE NoValue]

\* update(update_quadruple): runs the hooks and returns self.dec_graph
update(s, q, o) ==
    LET r == RunHooks(s, HookCalls(q, o), 1)
    IN [self |-> r.self, raised |-> r.raised, log |-> r.log,
        returned |-> IF r.raised = "ok" THEN r.self.dec_graph ELSE NoValue]

\* the quadruples handed to update: the net change between two versions of
\* the lower-level graph
Quadruples(size) ==
    {[e_minus |-> {x[2] : x \in {y \in t : y[1] = "e_minus"}},
      v_minus |-> {x[2] : x \in {y \in t : y[1] = "v_minus"}},
      v_plus |-> {x[2] : x \in {y \in t : y[1] = "v_plus"}},
      e_plus |-> {x[2] : x \in {y \in t : y[1] = "e_plus"}}] :
        t \in {u \in SubsetsUpTo(({"e_minus", "e_plus"} \X EdgeUniverse)
                                   \cup ({"v_minus", "v_plus"} \X Nodes), size) :
                 /\ \A e \in EdgeUniverse : ~ (<<"e_minus", e>> \in u /\ <<"e_plus", e>> \in u)
                 /\ \A n \in Nodes : ~ (<<"v_minus", n>> \in u /\ <<"v_plus", n>> \in u)}}

IterationOrders(q) ==
    [e_minus : Orders(q.e_minus), v_minus : Orders(q.v_minus),
     v_plus : Orders(q.v_plus), e_plus : Orders(q.e_plus)]

\* the lower-level graph G after the net change q
After(G, q) ==
    [V |-> (G.V \ q.v_minus) \cup q.v_plus, E |-> (G.E \ q.e_minus) \cup q.e_plus]

\* update's precondition: a node leaves only together with the edges at it
RemovalsAreConsistent(s, q) ==
    \A n \in q.v_minus : \A e \in HeldEdges(s.dec_graph) :
        (e[1] = n \/ e[2] = n) => e \in q.e_minus

----------------------------------------------------------------------------
(* The calls made on the scheme. *)

NoGraph == [V |-> {}, E |-> {}]
NoQuadruple == [e_minus |-> {}, v_minus |-> {}, v_plus |-> {}, e_plus |-> {}]

\* the last call and how it ended; q, log and n (the update calls made so
\* far) are recorded by the specification of the hook calls only, which also
\* keeps in G the graph the scheme was contracted from
Call(op, outcome, G, q, log, n) ==
    [op |-> op, outcome |-> outcome, G |-> G, q |-> q, log |-> log, n |-> n]

Init ==
    /\ dec_graph = __init__.dec_graph
    /\ contraction_sets_table = __init__.contraction_sets_table
    /\ supernode_table = __init__.supernode_table
    /\ _supernode_id_counter = __init__._supernode_id_counter
    /\ _component_set_id_counter = __init__._component_set_id_counter
    /\ _valid = __init__._valid
    /\ supernode = __init__.supernode
    /\ issued = __init__.issued
    /\ last = Call("__init__", "ok", NoGraph, NoQuadruple, << >>, 0)
    /\ returned = None

\* the ids a contract call will draw stay within MaxId
IdsSuffice(G, members) ==
    /\ _component_set_id_counter + Len(members) <= MaxId
    /\ _supernode_id_counter
         + Cardinality({{members[i] : i \in {j \in DOMAIN members : n \in members[j]}} : n \in G.V})
         <= MaxId

Contract ==
    \E G \in Graphs :
      \E members \in MemberSeqs(G.V), order \in Orders(G.V) :
        /\ IdsSuffice(G, members)
        /\ \E s \in {contract(Self, G, members, order)} :
              Store(s) /\ returned' = s.dec_graph
        /\ last' = Call("contract", "ok", G, NoQuadruple, << >>, 0)

ContractStrategyFailure ==
    /\ Store(contract_raises(Self))
    /\ last' = Call("contract", "StrategyFailure", NoGraph, NoQuadruple, << >>, 0)
    /\ returned' = NoValue

Invalidate ==
    /\ Store(invalidate(Self))
    /\ last' = Call("invalidate", "ok", NoGraph, NoQuadruple, << >>, 0)
    /\ returned' = None

\* update(q), whatever the scheme's state
UpdateCall(recorded) ==
    \E q \in Quadruples(IF recorded THEN MaxRecordedQuad ELSE MaxQuad) :
      \E o \in IterationOrders(q) :
        \E r \in {update(Self, q, o)} :
           /\ RemovalsAreConsistent(Self, q)
           /\ r.self._supernode_id_counter <= MaxId
           /\ Store(r.self)
           /\ returned' = r.returned
           /\ last' = IF recorded
                      THEN Call("update", r.raised, last.G, q, r.log, last.n + 1)
                      ELSE Call("update", r.raised, NoGraph, NoQuadruple, << >>, 0)

Update == UpdateCall(FALSE)

Next == Contract \/ ContractStrategyFailure \/ Invalidate \/ Update

Spec == Init /\ [][Next]_vars

\* A new scheme that is contracted at most once, possibly invalidated, and
\* then updated, the hook calls of each update on record.
FirstContract == last.op = "__init__" /\ Contract

InvalidateContracted ==
    /\ last.op = "contract"
    /\ Store(invalidate(Self))
    /\ last' = Call("invalidate", "ok", last.G, NoQuadruple, << >>, 0)
    /\ returned' = None

RecordedUpdate == last.n < MaxUpdates /\ UpdateCall(TRUE)

NextCalls == FirstContract \/ InvalidateContracted \/ RecordedUpdate

SpecCalls == Init /\ [][NextCalls]_vars

\* A new scheme that is contracted and then contracted again on the same
\* graph, by a deterministic strategy: the second call gets the table of the
\* first.  In either call a decoration callback may raise.
TableMembers ==
    LET ids == SelectSeq(issued.component_set_ids,
                         LAMBDA c : c \in DOMAIN contraction_sets_table.c_sets)
    IN [i \in DOMAIN ids |-> contraction_sets_table.c_sets[ids[i]].members]

TableOrder ==
    [i \in DOMAIN contraction_sets_table.items |-> contraction_sets_table.items[i][1]]

MayBuild ==
    \/ last.op = "__init__"
    \/ last.op = "contract" /\ last.outcome = "ok" /\ last.n < MaxRebuilds

Build ==
    /\ MayBuild
    /\ \E G \in IF last.op = "__init__" THEN Graphs ELSE {last.G} :
         \E members \in IF last.op = "__init__" THEN MemberSeqs(G.V) ELSE {TableMembers},
            order \in IF last.op = "__init__" THEN Orders(G.V) ELSE {TableOrder} :
           /\ last.op = "__init__" => IdsSuffice(G, members)
           /\ \E s \in {contract(Self, G, members, order)} :
                 Store(s) /\ returned' = s.dec_graph
           /\ last' = Call("contract", "ok", G, NoQuadruple, << >>,
                           IF last.op = "__init__" THEN 0 ELSE last.n + 1)

BuildDecorationFailure ==
    /\ MayBuild
    /\ \E G \in IF last.op = "__init__" THEN Graphs ELSE {last.G} :
         \E members \in IF last.op = "__init__" THEN MemberSeqs(G.V) ELSE {TableMembers},
            order \in IF last.op = "__init__" THEN Orders(G.V) ELSE {TableOrder} :
           /\ last.op = "__init__" => IdsSuffice(G, members)
           /\ \E b \in {contract_built(Self, G, members, order)} :
                \E superedge_order \in Orders(DOMAIN b.dec_graph.E) :
                  \E completed \in 0..(Len(DecorationCalls(b, superedge_order)) - 1) :
                     Store(update_attr_raises(b, superedge_order, completed))
           /\ returned' = NoValue
           /\ last' = Call("contract", "DecorationFailure", G, NoQuadruple, << >>, last.n)

NextBuilds == Build \/ BuildDecorationFailure

SpecBuilds == Init /\ [][NextBuilds]_vars

----------------------------------------------------------------------------
(* Properties. *)

\* the last call was a contract that returned
Contracted == last.op = "contract" /\ last.outcome = "ok"

\* the nodes the component-set table lists
ListedNodes ==
    {contraction_sets_table.items[i][1] : i \in DOMAIN contraction_sets_table.items}

\* the component sets the table lists for node n, each taken as the set of
\* its members
ComponentSetsOf(n) ==
    {contraction_sets_table.c_sets[c].members :
        c \in UNION {contraction_sets_table.items[i][2] :
                        i \in {j \in DOMAIN contraction_sets_table.items :
                                  contraction_sets_table.items[j][1] = n}}}

\* the supernodes of dec_graph that n is a member of
SupernodesOf(n) == {k \in DOMAIN dec_graph.V : n \in dec_graph.V[k].dec.V}

\* the superedges, and the supernodes, of dec_graph that hold edge e
SuperedgesHolding(e) == {k \in DOMAIN dec_graph.E : e \in dec_graph.E[k].dec}
SupernodesHolding(e) == {k \in DOMAIN dec_graph.V : e \in dec_graph.V[k].dec.E}

RECURSIVE Sum(_, _)
Sum(f, S) ==
    IF S = {} THEN 0
    ELSE LET x == CHOOSE y \in S : TRUE IN f[x] + Sum(f, S \ {x})

\* C1: after contract succeeds, two listed nodes are members of the same
\* supernode iff their sets of component sets are equal, and every signature
\* that occurs has exactly one supernode.
C1_SameSupernodeIffSameSignature ==
    Contracted =>
        /\ \A n1, n2 \in ListedNodes :
              (SupernodesOf(n1) \cap SupernodesOf(n2) # {})
                  <=> (ComponentSetsOf(n1) = ComponentSetsOf(n2))
        /\ \A n \in ListedNodes :
              Cardinality({k \in DOMAIN dec_graph.V :
                              dec_graph.V[k].set_of_sets = ComponentSetsOf(n)}) = 1

\* two different nodes with the same, non-empty, set of component sets
C1_Witness ==
    /\ Contracted
    /\ \E n1, n2 \in ListedNodes :
          n1 # n2 /\ ComponentSetsOf(n1) = ComponentSetsOf(n2)
                  /\ ComponentSetsOf(n1) # {}

\* C2: after contract succeeds, every edge of G is held by exactly one
\* aggregate: the superedge keyed by the supernodes of its tail and head when
\* these differ, the internal graph of their common supernode otherwise.
C2_EdgeInExactlyOneAggregate ==
    Contracted =>
        \A e \in last.G.E :
          /\ Cardinality(SuperedgesHolding(e)) + Cardinality(SupernodesHolding(e)) = 1
          /\ \A t \in SupernodesOf(e[1]), h \in SupernodesOf(e[2]) :
               /\ t # h => SuperedgesHolding(e) = {<<t, h>>}
               /\ t = h => SupernodesHolding(e) = {t}

\* a contracted graph with an edge in a superedge and an edge inside a supernode
C2_Witness ==
    /\ Contracted
    /\ \E e \in last.G.E : SuperedgesHolding(e) # {}
    /\ \E e \in last.G.E : SupernodesHolding(e) # {}

\* C3: no two supernodes of the current dec_graph have the same signature,
\* and supernode_table has one supernode per signature.
C3_SignatureUnique ==
    dec_graph # None =>
        /\ \A k1, k2 \in DOMAIN dec_graph.V :
              dec_graph.V[k1].set_of_sets = dec_graph.V[k2].set_of_sets => k1 = k2
        /\ \A f \in DOMAIN supernode_table :
              \A k \in DOMAIN dec_graph.V :
                  dec_graph.V[k].set_of_sets = f => supernode_table[f] = k

\* two supernodes alive after an update that followed a contract
C3_Witness ==
    /\ dec_graph # None
    /\ last.op = "update" /\ last.outcome = "ok"
    /\ Cardinality(DOMAIN dec_graph.V) > 1
    /\ Len(issued.keys) > Cardinality(DOMAIN dec_graph.V)

\* C4: every superedge of dec_graph has its tail and its head supernode in
\* the node mapping of dec_graph.
C4_SuperedgeEndpointsPresent ==
    dec_graph # None =>
        \A k \in DOMAIN dec_graph.E :
            /\ dec_graph.E[k].tail \in DOMAIN dec_graph.V
            /\ dec_graph.E[k].head \in DOMAIN dec_graph.V
            /\ k = <<dec_graph.E[k].tail, dec_graph.E[k].head>>

\* a later contract, on nodes that carried the back-references of an earlier
\* one, has built a superedge
C4_Witness ==
    /\ Contracted
    /\ DOMAIN dec_graph.E # {}
    /\ \E i \in DOMAIN issued.keys : issued.keys[i] \notin DOMAIN dec_graph.V

Phase(hook) ==
    CASE hook = "update_removed_edge" -> 1
      [] hook = "update_removed_node" -> 2
      [] hook = "update_added_node" -> 3
      [] hook = "update_added_edge" -> 4

Passed(hook) == {last.log[i][2] : i \in {j \in DOMAIN last.log : last.log[j][1] = hook}}

\* C5: update calls the hooks in the order removed edges, removed nodes,
\* added nodes, added edges, and passes each element of the quadruple to its
\* hook exactly once.
C5_UpdateOrder ==
    last.op = "update" =>
        /\ \A i, j \in DOMAIN last.log :
              i < j => /\ Phase(last.log[i][1]) <= Phase(last.log[j][1])
                       /\ last.log[i] # last.log[j]
        /\ Passed("update_removed_edge") \subseteq last.q.e_minus
        /\ Passed("update_removed_node") \subseteq last.q.v_minus
        /\ Passed("update_added_node") \subseteq last.q.v_plus
        /\ Passed("update_added_edge") \subseteq last.q.e_plus
        /\ last.outcome = "ok" =>
              /\ Passed("update_removed_edge") = last.q.e_minus
              /\ Passed("update_removed_node") = last.q.v_minus
              /\ Passed("update_added_node") = last.q.v_plus
              /\ Passed("update_added_edge") = last.q.e_plus

\* an update that returned after it removed an edge and then a node
C5_Witness ==
    /\ last.op = "update" /\ last.outcome = "ok"
    /\ last.q.e_minus # {} /\ last.q.v_minus # {}

\* C6: the supernode ids and the component-set ids handed out are strictly
\* increasing, and no two supernodes ever created have the same key.
C6_IdsNeverReused ==
    /\ \A i, j \in DOMAIN issued.supernode_ids :
          i < j => issued.supernode_ids[i] < issued.supernode_ids[j]
    /\ \A i, j \in DOMAIN issued.component_set_ids :
          i < j => issued.component_set_ids[i] < issued.component_set_ids[j]
    /\ \A i, j \in DOMAIN issued.keys : i # j => issued.keys[i] # issued.keys[j]

\* supernodes created by two contract calls, component sets by two
C6_Witness ==
    /\ Contracted
    /\ Len(issued.keys) > Cardinality(DOMAIN dec_graph.V)
    /\ Cardinality(DOMAIN dec_graph.V) > 0
    /\ Len(issued.component_set_ids) > Cardinality(DOMAIN contraction_sets_table.c_sets)
    /\ DOMAIN contraction_sets_table.c_sets # {}

\* C7: a new scheme is not valid; only a contract call that returns makes it
\* valid, and it does; invalidate makes it not valid; update and a failed
\* contract leave the flag as it is.
C7_ValidityLifecycle ==
    /\ ~ is_valid(Self)
    /\ [][/\ (_valid' /\ ~ _valid) => (last'.op = "contract" /\ last'.outcome = "ok")
          /\ (last'.op = "contract" /\ last'.outcome = "ok") => _valid'
          /\ last'.op = "invalidate" => ~ _valid'
          /\ last'.op = "update" => (_valid' = _valid)]_vars

\* an update made on a scheme that was contracted and then invalidated
C7_Witness ==
    /\ last.op = "update"
    /\ dec_graph # None
    /\ ~ _valid
    /\ contraction_sets_table # None

\* C8: after an update that raised InconsistentUpdate the scheme is not valid.
C8_FailedUpdateTaintsValidity ==
    (last.op = "update" /\ last.outcome = "InconsistentUpdate") => ~ is_valid(Self)

C10_EdgeCountConserved ==
    Contracted =>
        Cardinality(last.G.E)
          = Sum([k \in DOMAIN dec_graph.E |-> Cardinality(dec_graph.E[k].dec)],
                DOMAIN dec_graph.E)
            + Sum([k \in DOMAIN dec_graph.V |-> Cardinality(dec_graph.V[k].dec.E)],
                  DOMAIN dec_graph.V)

\* two edges of G inside one supernode
C10_Witness ==
    /\ Contracted
    /\ \E k \in DOMAIN dec_graph.V : Cardinality(dec_graph.V[k].dec.E) > 1

\* the members of the supernode with key k in g, none when g has no such node
MembersOf(g, k) == IF k \in DOMAIN g.V THEN g.V[k].dec.V ELSE {}

\* the structure of a contracted graph, ids and keys aside: the supernodes by
\* their members, each with its signature and the edges inside it, and the
\* superedges by the members of their tail and head, each with its edges
Structure(g) ==
    [supernodes |-> {[members |-> g.V[k].dec.V, set_of_sets |-> g.V[k].set_of_sets,
                      edges |-> g.V[k].dec.E] : k \in DOMAIN g.V},
     superedges |-> {[tail |-> MembersOf(g, k[1]), head |-> MembersOf(g, k[2]),
                      edges |-> g.E[k].dec] : k \in DOMAIN g.E}]

\* the signature the table gives each node it lists
SignatureMap == [n \in ListedNodes |-> ComponentSetsOf(n)]

\* C11: when contract is called again on the same graph and the strategy
\* returns the same grouping, the new graph has the structure of the old one
\* (members and signature of every supernode, the edges inside it, the edges
\* of every superedge), whatever the new ids and keys.
C11_IdempotentRebuild ==
    [][(/\ Contracted /\ Contracted'
        /\ last'.G = last.G
        /\ SignatureMap' = SignatureMap)
          => Structure(dec_graph') = Structure(dec_graph)]_vars

\* a graph of two supernodes and a superedge was built a second time, under
\* new keys
C11_Witness ==
    /\ Contracted /\ last.n = 1
    /\ Cardinality(DOMAIN dec_graph.V) = 2
    /\ DOMAIN dec_graph.E # {}
    /\ \E k \in DOMAIN dec_graph.V : dec_graph.V[k].dec.E # {}
    /\ Len(issued.keys) = 4

\* the partition of the lower nodes and the aggregation of the lower edges:
\* Structure without the signatures
Shape(g) ==
    [supernodes |-> {[members |-> g.V[k].dec.V, edges |-> g.V[k].dec.E] : k \in DOMAIN g.V},
     superedges |-> {[tail |-> MembersOf(g, k[1]), head |-> MembersOf(g, k[2]),
                      edges |-> g.E[k].dec] : k \in DOMAIN g.E}]

\* contract(G) on a new scheme of the cycle-membership strategy
Rebuilt(G) == contract(__init__, G, cycle_membership(G), SetToSeq(G.V)).dec_graph

\* C12: for a scheme of the cycle-membership strategy contracted from G, the
\* graph after an update that delivered the change q has the partition and
\* the edge aggregation of the graph contract builds from scratch for G
\* after q.
C12_IncrementalEqualsRebuild ==
    (/\ last.op = "update" /\ last.outcome = "ok"
     /\ dec_graph # None
     /\ {c.members : c \in {contraction_sets_table.c_sets[i] :
                               i \in DOMAIN contraction_sets_table.c_sets}}
           = CycleSets(last.G)
     /\ Cardinality(DOMAIN contraction_sets_table.c_sets) = Cardinality(CycleSets(last.G)))
        => Shape(dec_graph) = Shape(Rebuilt(After(last.G, last.q)))

\* C13: when the table gives every node of G the same signature, contract
\* builds exactly one supernode, which holds every node and every edge of G,
\* and no superedge.
C13_OneSignatureOneSupernode ==
    (/\ Contracted
     /\ last.G.V # {}
     /\ \A n1, n2 \in last.G.V : ComponentSetsOf(n1) = ComponentSetsOf(n2))
        => /\ Cardinality(DOMAIN dec_graph.V) = 1
           /\ DOMAIN dec_graph.E = {}
           /\ \A k \in DOMAIN dec_graph.V :
                 /\ dec_graph.V[k].dec.V = last.G.V
                 /\ dec_graph.V[k].dec.E = last.G.E

\* the nodes 1 and 2 of the cycle 1 -> 2 -> 1, both in one component set
C13_Witness ==
    /\ Contracted
    /\ last.G.V = {1, 2}
    /\ last.G.E = {<<1, 2>>, <<2, 1>>}
    /\ \A n \in last.G.V : ComponentSetsOf(n) = {{1, 2}}
    /\ Cardinality(DOMAIN dec_graph.V) = 1

\* the scheme after the first n of the calls have run
RECURSIVE Applied(_, _, _)
Applied(s, calls, n) ==
    IF n = 0 THEN s ELSE Hook(Applied(s, calls, n - 1), calls[n]).self

\* the elements of the quadruple q, each with the hook it is for
ElementsOf(q) ==
    ({"update_removed_edge"} \X q.e_minus) \cup ({"update_removed_node"} \X q.v_minus)
      \cup ({"update_added_node"} \X q.v_plus) \cup ({"update_added_edge"} \X q.e_plus)

\* C14: when update fails, the scheme is left as the hook calls made before
\* the failing one left it: these keep their effect, the failing element and
\* every element after it are not applied, and update returns no graph.
C14_FailedUpdateNoRollback ==
    [][(last'.op = "update" /\ last'.outcome # "ok") =>
          /\ last'.log # << >>
          /\ Self' = Applied(Self, last'.log, Len(last'.log) - 1)
          /\ Hook(Self', last'.log[Len(last'.log)]).raised = last'.outcome
          /\ \A i \in DOMAIN last'.log : last'.log[i] \in ElementsOf(last'.q)
          /\ returned' = NoValue]_vars

\* update failed on its second element: the first had changed the graph, a
\* third was still to come
C14_Witness ==
    /\ last.op = "update" /\ last.outcome = "InconsistentUpdate"
    /\ Len(last.log) = 2
    /\ Cardinality(ElementsOf(last.q)) = 3
    /\ dec_graph # None /\ dec_graph # returned
    /\ last.log[1][1] = "update_removed_edge"
    /\ last.log[1][2] \notin HeldEdges(dec_graph)
    /\ last.q.v_plus # {}
    /\ \A n \in last.q.v_plus : supernode[n] = NoKey

\* the table lists the nodes of G and dec_graph holds the whole structure of
\* this build: every node of G in the one supernode of its signature, every
\* edge of G in one aggregate
FullyBuilt(G) ==
    /\ contraction_sets_table # None /\ dec_graph # None
    /\ ListedNodes = G.V
    /\ \A n \in G.V :
          /\ Cardinality(SupernodesOf(n)) = 1
          /\ \A k \in SupernodesOf(n) : dec_graph.V[k].set_of_sets = ComponentSetsOf(n)
    /\ \A k \in DOMAIN dec_graph.V : dec_graph.V[k].dec.V \subseteq G.V
    /\ HeldEdges(dec_graph) = G.E
    /\ \A e \in G.E :
          Cardinality(SuperedgesHolding(e)) + Cardinality(SupernodesHolding(e)) = 1

\* the attributes a callback returns when it is handed the entity as it is
\* at the end of the build
SeenComplete(kind, key) ==
    CASE kind = "supernode" -> supernode_attr_function(dec_graph.V[key])
      [] kind = "superedge" -> superedge_attr_function(dec_graph.E[key])
      [] kind = "c_set" -> c_set_attr_function(contraction_sets_table.c_sets[key].members)

AttrOf(kind, key) ==
    CASE kind = "supernode" -> dec_graph.V[key].attr
      [] kind = "superedge" -> dec_graph.E[key].attr
      [] kind = "c_set" -> contraction_sets_table.c_sets[key].attr

\* the supernodes, superedges and component sets of the scheme
Entities ==
    ({"supernode"} \X DOMAIN dec_graph.V) \cup ({"superedge"} \X DOMAIN dec_graph.E)
      \cup ({"c_set"} \X DOMAIN contraction_sets_table.c_sets)

\* C15: a contract call that returns has built the whole structure from the
\* table of its strategy, decorated every supernode, superedge and component
\* set with what the callback sees of the complete structure, and marked the
\* scheme valid; a call that ends inside decoration has built the whole
\* structure, has decorated some entities, each from the complete structure,
\* and has not touched the validity flag.
C15_ContractStepOrder ==
    [][/\ (last'.op = "contract" /\ last'.outcome = "ok") =>
            /\ FullyBuilt(last.G)'
            /\ \A e \in Entities' : AttrOf(e[1], e[2])' = SeenComplete(e[1], e[2])'
            /\ _valid'
       /\ (last'.op = "contract" /\ last'.outcome = "DecorationFailure") =>
            /\ FullyBuilt(last.G)'
            /\ \A e \in Entities' :
                  AttrOf(e[1], e[2])' \in {EmptyMap, SeenComplete(e[1], e[2])'}
            /\ \E e \in Entities' : AttrOf(e[1], e[2])' = EmptyMap
            /\ _valid' = _valid]_vars

\* decoration failed on a new scheme after the supernode holding two nodes
\* and an edge had been decorated
C15_Witness ==
    /\ last.op = "contract" /\ last.outcome = "DecorationFailure"
    /\ ~ _valid
    /\ \E k \in DOMAIN dec_graph.V :
          /\ Cardinality(dec_graph.V[k].dec.V) = 2
          /\ dec_graph.V[k].dec.E # {}
          /\ dec_graph.V[k].attr # EmptyMap
    /\ \E c \in DOMAIN contraction_sets_table.c_sets :
          contraction_sets_table.c_sets[c].attr = EmptyMap

\* the keys of the supernodes created last, as many as dec_graph has nodes
NewestKeys ==
    {issued.keys[i] :
        i \in (Len(issued.keys) - Cardinality(DOMAIN dec_graph.V) + 1)..Len(issued.keys)}

\* C16: after contract succeeds, supernode_table has exactly the signatures
\* of the new table, its values are exactly the nodes of the new dec_graph,
\* and these are supernodes this call created, holding listed nodes only.
C16_ContractReplacesTables ==
    Contracted =>
        /\ DOMAIN supernode_table = {ComponentSetsOf(n) : n \in ListedNodes}
        /\ {supernode_table[f] : f \in DOMAIN supernode_table} = DOMAIN dec_graph.V
        /\ DOMAIN dec_graph.V = NewestKeys
        /\ \A k \in DOMAIN dec_graph.V :
              /\ dec_graph.V[k].set_of_sets \in DOMAIN supernode_table
              /\ supernode_table[dec_graph.V[k].set_of_sets] = k
              /\ dec_graph.V[k].dec.V \subseteq ListedNodes
        /\ \A k \in DOMAIN dec_graph.E :
              k[1] \in DOMAIN dec_graph.V /\ k[2] \in DOMAIN dec_graph.V

\* a contract on a graph of one unclustered node, after two supernodes had
\* been created by earlier calls
C16_Witness ==
    /\ Contracted
    /\ Len(issued.keys) = 3
    /\ Cardinality(DOMAIN dec_graph.V) = 1
    /\ DOMAIN supernode_table = {{}}

\* the listed nodes that are members of no component set
Unclustered == {n \in ListedNodes : ComponentSetsOf(n) = {}}

\* C17: after contract succeeds, the nodes whose set of component sets is
\* empty are all members of one supernode, the only one with the empty
\* signature, which has no other member.
C17_UnclusteredShareOneSupernode ==
    (Contracted /\ Unclustered # {}) =>
        /\ Cardinality({k \in DOMAIN dec_graph.V : dec_graph.V[k].set_of_sets = {}}) = 1
        /\ \A k \in DOMAIN dec_graph.V :
              dec_graph.V[k].set_of_sets = {} => dec_graph.V[k].dec.V = Unclustered
        /\ \A n \in Unclustered : Cardinality(SupernodesOf(n)) = 1

\* two unclustered nodes joined by an edge
C17_Witness ==
    /\ Contracted
    /\ Unclustered = {1, 2}
    /\ <<1, 2>> \in last.G.E
    /\ \E k \in DOMAIN dec_graph.V : <<1, 2>> \in dec_graph.V[k].dec.E

\* C18: after contract succeeds, every listed node is a member of exactly one
\* supernode of dec_graph, the supernodes have no other members, and the
\* back-reference of the node is that supernode, one this call created.
C18_SupernodesPartitionNodes ==
    Contracted =>
        /\ \A n \in ListedNodes :
              /\ Cardinality(SupernodesOf(n)) = 1
              /\ supernode[n] \in SupernodesOf(n)
              /\ supernode[n] \in NewestKeys
        /\ UNION {dec_graph.V[k].dec.V : k \in DOMAIN dec_graph.V} = ListedNodes
        /\ \A k \in DOMAIN dec_graph.V : dec_graph.V[k].dec.V # {}

\* two nodes in two supernodes, one of the nodes contracted before into a
\* supernode that is gone
C18_Witness ==
    /\ Contracted
    /\ ListedNodes = {1, 2}
    /\ supernode[1] # supernode[2]
    /\ Len(issued.keys) = 3

\* the elements the log passed to one hook, in the order of the log
Passing(log, hook) ==
    LET calls == SelectSeq(log, LAMBDA c : c[1] = hook)
    IN [i \in DOMAIN calls |-> calls[i][2]]

\* the iteration order of the four sets that gives the log
OrderOf(log) ==
    [e_minus |-> Passing(log, "update_removed_edge"),
     v_minus |-> Passing(log, "update_removed_node"),
     v_plus |-> Passing(log, "update_added_node"),
     e_plus |-> Passing(log, "update_added_edge")]

\* C19: an update that returns leaves the validity flag and the
\* component-set table as they were, leaves the scheme as its hook calls
\* left it, and returns the scheme's dec_graph; the same call on the scheme
\* with the validity flag set either way runs the same hooks to the same
\* result and returns the same graph.
C19_UpdateFrame ==
    [][(last'.op = "update" /\ last'.outcome = "ok") =>
          /\ _valid' = _valid
          /\ contraction_sets_table' = contraction_sets_table
          /\ returned' = dec_graph'
          /\ Self' = Applied(Self, last'.log, Len(last'.log))
          /\ \A v \in BOOLEAN :
                LET r == update([Self EXCEPT !._valid = v], last'.q, OrderOf(last'.log))
                IN /\ r.raised = "ok"
                   /\ r.log = last'.log
                   /\ r.self = [Self' EXCEPT !._valid = v]
                   /\ r.returned = dec_graph']_vars

\* an update of three elements changed the graph of an invalidated scheme
C19_Witness ==
    /\ last.op = "update" /\ last.outcome = "ok"
    /\ ~ _valid
    /\ dec_graph # None
    /\ Len(last.log) = 3
    /\ returned = dec_graph
    /\ last.q.v_plus # {} /\ last.q.e_plus # {}

\* C20: whenever is_valid() is true, dec_graph and the tables are those of a
\* contract call that ran to completion: the call that assigned them went
\* through all of its decoration.
C20_ValidMeansCompletedBuild ==
    is_valid(Self) =>
        /\ dec_graph # None /\ contraction_sets_table # None
        /\ ~ (last.op = "contract" /\ last.outcome = "DecorationFailure")
        /\ \A e \in Entities : AttrOf(e[1], e[2]) # EmptyMap

====

